---------------------------- MODULE Spec2Model ----------------------------
(***************************************************************************)
(* VoteModule (mmdet3d/ops/vote_module.py): vote generation (forward),     *)
(* the voting loss (get_loss) and the nearest-neighbour helper             *)
(* (nn_distance), modelled over small integer tensors.                     *)
(*                                                                         *)
(* A tensor is a record [shape, stride, off, store, data]: data is the     *)
(* storage, store names it (a caller's tensor, or "local" for one the call *)
(* allocates), and shape/stride/off address it the way torch does, so that *)
(* transpose, view, unsqueeze and slicing are views of one storage while   *)
(* contiguous(), repeat, gather and arithmetic allocate a new one.         *)
(* Dimensions and indices are 0-based as in the source.                    *)
(***************************************************************************)
EXTENDS Integers, Sequences, FiniteSets

VARIABLES cfg, params, optimize, call, tensors, ret

vars == <<cfg, params, optimize, call, tensors, ret>>

-----------------------------------------------------------------------------
(* Bounds of the model *)

MaxN == 2       \* seeds (points) per batch item 1..MaxN
MaxK == 2       \* vote_per_seed 1..MaxK
ValMod == 5     \* generated tensor entries lie in 0..ValMod-1

Seeds == {0, 1, 2}                  \* generators of the input tensors
BatchSizes == {1, 2}
InChannelValues == {1, 2}
GtPerSeedValues == {1, 3}
LossWeightValues == {1, 2}
ParamValues == {1, 2}
Modes == {"smooth_l1", "l1", "l2", "cosine"}

-----------------------------------------------------------------------------
(* Tensors *)

RECURSIVE Prod(_)
Prod(s) == IF s = <<>> THEN 1 ELSE Head(s) * Prod(Tail(s))

RECURSIVE SumTo(_, _)
SumTo(s, n) == IF n = 0 THEN 0 ELSE s[n] + SumTo(s, n - 1)

SumSeq(s) == SumTo(s, Len(s))

RECURSIVE MinSeq(_)
MinSeq(s) == IF Len(s) = 1 THEN s[1]
             ELSE LET m == MinSeq(Tail(s)) IN IF s[1] <= m THEN s[1] ELSE m

\* first position of the minimum (torch.min returns one index of a minimal entry)
ArgMinSeq(s) == CHOOSE i \in 1..Len(s) :
                    /\ s[i] = MinSeq(s)
                    /\ \A j \in 1..(i - 1) : s[j] # s[i]

Abs(x) == IF x < 0 THEN -x ELSE x

\* row-major strides of a shape
ContigStride(shape) ==
    [d \in 1..Len(shape) |-> Prod(SubSeq(shape, d + 1, Len(shape)))]

\* the index tuple of row-major position i (0-based) of a shape
Unravel(shape, i) ==
    LET cs == ContigStride(shape)
    IN [d \in 1..Len(shape) |-> (i \div cs[d]) % shape[d]]

Offset(t, idx) ==
    t.off + SumSeq([d \in 1..Len(idx) |-> idx[d] * t.stride[d]])

At(t, idx) == t.data[Offset(t, idx) + 1]

Indices(shape) == {Unravel(shape, i) : i \in 0..(Prod(shape) - 1)}

\* a freshly allocated contiguous tensor over the storage data
Fresh(shape, data) ==
    [shape |-> shape, stride |-> ContigStride(shape), off |-> 0,
     store |-> "local", data |-> SubSeq(data, 1, Prod(shape))]

\* the index tuple of storage position i (1-based) of a contiguous tensor
Pos(shape, i) == Unravel(shape, i - 1)

\* a 0-dimensional tensor
Scalar(v) ==
    [shape |-> <<>>, stride |-> <<>>, off |-> 0, store |-> "local",
     data |-> <<v>>]

Rank(t) == Len(t.shape)

IsContiguous(t) ==
    \A d \in 1..Len(t.shape) :
        t.shape[d] = 1 \/ t.stride[d] = ContigStride(t.shape)[d]

Contiguous(t) ==
    Fresh(t.shape, [i \in 1..Prod(t.shape) |-> At(t, Pos(t.shape, i))])

Swap(s, i, j) ==
    [d \in 1..Len(s) |-> IF d = i THEN s[j] ELSE IF d = j THEN s[i] ELSE s[d]]

\* a view of t's storage
Strided(t, shape, stride, off) ==
    [shape |-> shape, stride |-> stride, off |-> off, store |-> t.store,
     data |-> t.data]

Transpose(t, d0, d1) ==
    Strided(t, Swap(t.shape, d0 + 1, d1 + 1), Swap(t.stride, d0 + 1, d1 + 1),
            t.off)

InsertAt(s, d, v) == SubSeq(s, 1, d) \o <<v>> \o SubSeq(s, d + 1, Len(s))

\* Tensor.unsqueeze(dim); a negative dim counts from the end
Unsqueeze(t, dim) ==
    LET d == IF dim < 0 THEN dim + Rank(t) + 1 ELSE dim
    IN Strided(t, InsertAt(t.shape, d, 1),
               InsertAt(t.stride, d,
                        IF d < Rank(t)
                        THEN t.shape[d + 1] * t.stride[d + 1] ELSE 1),
               t.off)

\* Tensor.view: of a contiguous tensor, the row-major reading of its storage;
\* of a non-contiguous one, the split of its last dimension (the only other
\* view the module takes, line 85), which keeps the leading strides.
View(t, shape) ==
    IF IsContiguous(t)
    THEN Strided(t, shape, ContigStride(shape), t.off)
    ELSE LET n == Len(t.shape)
             last == t.stride[n]
         IN Strided(t, shape,
                    SubSeq(t.stride, 1, n - 1) \o <<last * shape[n + 1], last>>,
                    t.off)

\* t[..., start:stop] along dimension dim
Narrow(t, dim, start, stop) ==
    Strided(t,
            [d \in 1..Len(t.shape) |->
                IF d = dim + 1 THEN stop - start ELSE t.shape[d]],
            t.stride,
            t.off + start * t.stride[dim + 1])

\* broadcasting of same-rank operands
Broadcastable(s1, s2) ==
    /\ Len(s1) = Len(s2)
    /\ \A d \in 1..Len(s1) : s1[d] = s2[d] \/ s1[d] = 1 \/ s2[d] = 1

BroadcastShape(s1, s2) ==
    [d \in 1..Len(s1) |-> IF s1[d] = 1 THEN s2[d] ELSE s1[d]]

Clamp(t, idx) == [d \in 1..Len(idx) |-> IF t.shape[d] = 1 THEN 0 ELSE idx[d]]

Add(a, b) ==
    LET shape == BroadcastShape(a.shape, b.shape)
    IN Fresh(shape,
             [i \in 1..Prod(shape) |->
                 LET idx == Pos(shape, i)
                 IN At(a, Clamp(a, idx)) + At(b, Clamp(b, idx))])

Mul(a, b) ==
    LET shape == BroadcastShape(a.shape, b.shape)
    IN Fresh(shape,
             [i \in 1..Prod(shape) |->
                 LET idx == Pos(shape, i)
                 IN At(a, Clamp(a, idx)) * At(b, Clamp(b, idx))])

\* Tensor.repeat with as many repeats as dimensions
Repeat(t, reps) ==
    LET shape == [d \in 1..Len(t.shape) |-> t.shape[d] * reps[d]]
    IN Fresh(shape,
             [i \in 1..Prod(shape) |->
                 LET idx == Pos(shape, i)
                 IN At(t, [d \in 1..Len(shape) |-> idx[d] % t.shape[d]])])

\* torch.gather(t, dim, index): out[idx] = t[idx with idx[dim] := index[idx]]
Gather(t, dim, index) ==
    Fresh(index.shape,
          [i \in 1..Prod(index.shape) |->
              LET idx == Pos(index.shape, i)
              IN At(t, [d \in 1..Len(idx) |->
                           IF d = dim + 1 THEN At(index, idx) ELSE idx[d]])])

RemoveAt(s, d) == SubSeq(s, 1, d - 1) \o SubSeq(s, d + 1, Len(s))

\* the entries of t along dimension dim at the other indices idx
Fibre(t, dim, idx) ==
    [j \in 1..t.shape[dim + 1] |-> At(t, InsertAt(idx, dim, j - 1))]


-----------------------------------------------------------------------------
(* Input tensors, drawn from a family of generators *)

Gen(seed, i) == (seed * (i + 1)) % ValMod

\* the caller's contiguous tensor name of the given shape: generator seed,
\* entries reduced mod m
GenTensor(name, shape, seed, m) ==
    [shape |-> shape, stride |-> ContigStride(shape), off |-> 0,
     store |-> name,
     data |-> SubSeq([i \in 1..Prod(shape) |-> Gen(seed, i - 1) % m],
                     1, Prod(shape))]

-----------------------------------------------------------------------------
(* forward *)

\* The learned transform stack, self.conv_out(self.vote_conv(seed_feats)): an
\* opaque pointwise function of the parameters and of each seed's own
\* features, of shape (B, out_channel, N).
TransformStack(p, seed_feats, out_channel) ==
    LET shape == <<seed_feats.shape[1], out_channel, seed_feats.shape[3]>>
    IN Fresh(shape,
             [i \in 1..Prod(shape) |->
                 LET idx == Pos(shape, i)
                 IN (p * (idx[2] + 1) + idx[2] \div 3
                     + SumSeq(Fibre(seed_feats, 1, <<idx[1], idx[3]>>)))
                    % ValMod])

\* the view taken of votes as conv_out returns it, channels before seeds
VotesViewNoTranspose(votes, batch_size, num_seed, vote_per_seed) ==
    View(votes,
         <<batch_size, num_seed, vote_per_seed,
           Prod(votes.shape) \div (batch_size * num_seed * vote_per_seed)>>)

\* votes.transpose(2, 1).view(batch_size, num_seed, self.vote_per_seed, -1)
VotesView(votes, batch_size, num_seed, vote_per_seed) ==
    View(Transpose(votes, 2, 1),
         <<batch_size, num_seed, vote_per_seed,
           Prod(votes.shape) \div (batch_size * num_seed * vote_per_seed)>>)

\* A real value x / sqrt(q) is kept exactly as [num |-> x, densq |-> q];
\* densq = 0 is the division by a zero norm (nan or inf).
Exact(t) ==
    Fresh(t.shape,
          [i \in 1..Prod(t.shape) |->
              [num |-> At(t, Pos(t.shape, i)), densq |-> 1]])

\* the squares of torch.norm(vote_feats, p=1, dim=1)
FeaturesNormL1(vote_feats) ==
    LET shape == RemoveAt(vote_feats.shape, 2)
    IN Fresh(shape,
             [i \in 1..Prod(shape) |->
                 LET f == Fibre(vote_feats, 1, Pos(shape, i))
                     s == SumSeq([j \in 1..Len(f) |-> Abs(f[j])])
                 IN s * s])

\* the squares of torch.norm(vote_feats, p=2, dim=1), of shape (B, M)
FeaturesNorm(vote_feats) ==
    LET shape == RemoveAt(vote_feats.shape, 2)
    IN Fresh(shape,
             [i \in 1..Prod(shape) |->
                 LET f == Fibre(vote_feats, 1, Pos(shape, i))
                 IN SumSeq([j \in 1..Len(f) |-> f[j] * f[j]])])

\* vote_feats.div(norm): broadcast division by the square root of normsq
DivByNorm(t, normsq) ==
    LET shape == BroadcastShape(t.shape, normsq.shape)
    IN Fresh(shape,
             [i \in 1..Prod(shape) |->
                 LET idx == Pos(shape, i)
                 IN [num |-> At(t, Clamp(t, idx)),
                     densq |-> At(normsq, Clamp(normsq, idx))]])

Forward(c, p, seed_points, seed_feats) ==
    LET batch_size == seed_feats.shape[1]
        feat_channels == seed_feats.shape[2]
        num_seed == seed_feats.shape[3]
        num_vote == num_seed * c.vote_per_seed
        out_channel == (3 + c.in_channels) * c.vote_per_seed
        votes0 == TransformStack(p, seed_feats, out_channel)
        votes == VotesView(votes0, batch_size, num_seed, c.vote_per_seed)
        offset == Narrow(votes, 3, 0, 3)
        res_feats == Narrow(votes, 3, 3, votes.shape[4])
        vote_points == View(Contiguous(Add(Unsqueeze(seed_points, 2), offset)),
                            <<batch_size, num_vote, 3>>)
        vote_feats0 == Contiguous(
                          Add(Unsqueeze(Transpose(seed_feats, 2, 1), 2),
                              res_feats))
        vote_feats == Contiguous(
                         Transpose(View(vote_feats0,
                                        <<batch_size, num_vote, feat_channels>>),
                                   2, 1))
    IN [kind |-> "ok",
        vote_points |-> vote_points,
        vote_feats |-> IF c.norm_feats
                       THEN DivByNorm(vote_feats,
                                      Unsqueeze(FeaturesNorm(vote_feats), 1))
                       ELSE Exact(vote_feats)]

-----------------------------------------------------------------------------
(* Reductions and in-place arithmetic *)

\* whether torch accepts dim for t: -r..r-1 for rank r, -1..0 for rank 0
DimOK(t, dim) ==
    LET r == IF Rank(t) = 0 THEN 1 ELSE Rank(t)
    IN dim \in (-r)..(r - 1)

WrapDim(t, dim) == IF dim < 0 THEN dim + Rank(t) ELSE dim

\* torch.sum(t, dim=dim); of a 0-dimensional tensor, the tensor's own value
SumDim(t, dim) ==
    IF Rank(t) = 0 THEN Scalar(t.data[t.off + 1])
    ELSE LET d == WrapDim(t, dim)
             shape == RemoveAt(t.shape, d + 1)
         IN Fresh(shape,
                  [i \in 1..Prod(shape) |->
                      SumSeq(Fibre(t, d, Pos(shape, i)))])

\* torch.min(t, dim=dim) of a tensor of rank >= 1: (values, indices)
MinDim(t, dim) ==
    LET d == WrapDim(t, dim)
        shape == RemoveAt(t.shape, d + 1)
    IN [values |-> Fresh(shape,
                         [i \in 1..Prod(shape) |->
                             MinSeq(Fibre(t, d, Pos(shape, i)))]),
        indices |-> Fresh(shape,
                          [i \in 1..Prod(shape) |->
                              ArgMinSeq(Fibre(t, d, Pos(shape, i))) - 1])]

\* torch.sum(t) over all entries
SumAll(t) == SumSeq(Contiguous(t).data)

\* whether target += other is accepted: other broadcasts to target's shape
CanAddInplace(target, other) ==
    /\ Broadcastable(target.shape, other.shape)
    /\ BroadcastShape(target.shape, other.shape) = target.shape

\* target += other, written into target's own (contiguous) storage
InplaceAdd(target, other) ==
    [shape |-> target.shape, stride |-> target.stride, off |-> target.off,
     store |-> target.store,
     data |-> SubSeq([i \in 1..Prod(target.shape) |->
                         LET idx == Pos(target.shape, i)
                         IN At(target, idx) + At(other, Clamp(other, idx))],
                     1, Prod(target.shape))]

\* the caller's tensors once written has been written: the one whose storage
\* it is holds the written data, the others are untouched
WriteBack(callers, written) ==
    [n \in DOMAIN callers |->
        IF callers[n].store = written.store
        THEN [shape |-> callers[n].shape, stride |-> callers[n].stride,
              off |-> callers[n].off, store |-> callers[n].store,
              data |-> written.data]
        ELSE callers[n]]

Err(name, line) == [kind |-> "error", err |-> name, line |-> line]

-----------------------------------------------------------------------------
(* nn_distance *)

\* twice the element-wise loss of a difference d of integer coordinates:
\* smooth_l1 (beta = 1) is d*d/2 for |d| < 1 and |d| - 1/2 otherwise
ElementLoss2(mode, d) ==
    CASE mode = "smooth_l1" -> IF d = 0 THEN 0 ELSE 2 * Abs(d) - 1
      [] mode = "l1" -> 2 * Abs(d)
      [] mode = "l2" -> 2 * d * d

\* smooth_l1_loss / l1_loss / mse_loss(a, b) with the default
\* reduction='mean': one 0-dimensional tensor, the mean over every entry,
\* kept exactly as num / den
MeanLoss(mode, a, b) ==
    Scalar([num |-> SumSeq([i \in 1..Prod(a.shape) |->
                               LET idx == Pos(a.shape, i)
                               IN ElementLoss2(mode, At(a, idx) - At(b, idx))]),
            den |-> 2 * Prod(a.shape)])

\* an assert that also lets 'cosine' through
AssertedModesWithCosine == {"smooth_l1", "l1", "l2", "cosine"}

\* assert mode in ['smooth_l1', 'l1', 'l2']
AssertedModes == {"smooth_l1", "l1", "l2"}

\* opt: the interpreter runs with assertions stripped (python -O)
NnDistance(opt, points1, points2, mode) ==
    IF ~opt /\ mode \notin AssertedModes
    THEN Err("AssertionError", 154)
    ELSE
    LET N == points1.shape[2]
        M == points2.shape[2]
        pc1_expand_tile == Repeat(Unsqueeze(points1, 2), <<1, 1, M, 1>>)
        pc2_expand_tile == Repeat(Unsqueeze(points2, 1), <<1, N, 1, 1>>)
    IN IF mode \notin {"smooth_l1", "l1", "l2"}
       THEN Err("NotImplementedError", 170)
       ELSE
       LET pc_dist == SumDim(MeanLoss(mode, pc1_expand_tile, pc2_expand_tile),
                             -1)
       IN IF ~DimOK(pc_dist, 2) THEN Err("IndexError", 172)
          ELSE IF ~DimOK(pc_dist, 1) THEN Err("IndexError", 173)
          ELSE [kind |-> "ok",
                distance1 |-> MinDim(pc_dist, 2).values,
                index1 |-> MinDim(pc_dist, 2).indices,
                distance2 |-> MinDim(pc_dist, 1).values,
                index2 |-> MinDim(pc_dist, 1).indices]

-----------------------------------------------------------------------------
(* get_loss *)

\* a gather that returned a view of vote_targets' storage
GatherVoteTargetsAliased(vote_targets, seed_indices_expand) ==
    LET g == Gather(vote_targets, 1, seed_indices_expand)
    IN [shape |-> g.shape, stride |-> g.stride, off |-> g.off,
        store |-> vote_targets.store, data |-> g.data]

\* torch.gather(vote_targets, 1, seed_indices_expand): a new tensor
GatherVoteTargets(vote_targets, seed_indices_expand) ==
    Gather(vote_targets, 1, seed_indices_expand)

\* x.view(batch_size * num_seed, -1, 3)
ViewPerSeed(x, batch_size, num_seed) ==
    View(x, <<batch_size * num_seed,
              Prod(x.shape) \div (batch_size * num_seed * 3), 3>>)

\* The result of get_loss and the caller's tensors after it.
\* seed_gt_votes is the local of that name when the call ended, added
\* whether line 125 had added the seed coordinates to it.
GetLoss(c, opt, args) ==
    LET batch_size == args.seed_points.shape[1]
        num_seed == args.seed_points.shape[2]
        seed_gt_votes_mask == Gather(args.vote_targets_mask, 1,
                                     args.seed_indices)
        pos_num == SumAll(seed_gt_votes_mask)
        seed_indices_expand ==
            Repeat(Unsqueeze(args.seed_indices, -1),
                   <<1, 1, 3 * c.gt_per_seed>>)
        gathered == GatherVoteTargets(args.vote_targets, seed_indices_expand)
        replicated == Repeat(args.seed_points, <<1, 1, 3>>)
    IN IF ~CanAddInplace(gathered, replicated)
       THEN [ret |-> [kind |-> "error", err |-> "RuntimeError", line |-> 125,
                      added |-> FALSE, seed_gt_votes |-> gathered],
             tensors |-> args]
       ELSE
       LET seed_gt_votes == InplaceAdd(gathered, replicated)
           after == WriteBack(args, seed_gt_votes)
           nn == NnDistance(opt,
                            ViewPerSeed(args.vote_points, batch_size, num_seed),
                            ViewPerSeed(seed_gt_votes, batch_size, num_seed),
                            "l1")
       IN IF nn.kind = "error"
          THEN [ret |-> [kind |-> "error", err |-> nn.err, line |-> nn.line,
                         added |-> TRUE, seed_gt_votes |-> seed_gt_votes],
                tensors |-> after]
          ELSE
          LET distance == nn.distance2
              votes_distance == MinDim(distance, 1).values
              votes_dist == View(votes_distance, <<batch_size, num_seed>>)
              \* vote_loss = total / (pos_num + 1e-6)
              total == SumAll(Mul(votes_dist, seed_gt_votes_mask))
          IN [ret |-> [kind |-> "ok",
                       loss |-> [num |-> c.loss_weight * total,
                                 pos |-> pos_num],
                       votes_dist |-> votes_dist,
                       added |-> TRUE, seed_gt_votes |-> seed_gt_votes],
              tensors |-> after]

-----------------------------------------------------------------------------
(* The module and its calls *)

Configs ==
    [in_channels : InChannelValues, vote_per_seed : 1..MaxK,
     gt_per_seed : GtPerSeedValues, norm_feats : BOOLEAN,
     loss_weight : LossWeightValues]

NoCall == [op |-> "none"]
NoTensors == [n \in {} |-> 0]
NoResult == [kind |-> "none"]

\* VoteModule(...): the configuration, the learned parameters, and whether
\* the interpreter strips assertions
Init ==
    /\ cfg \in Configs
    /\ params \in ParamValues
    /\ optimize \in BOOLEAN
    /\ call = NoCall
    /\ tensors = NoTensors
    /\ ret = NoResult

CallForward ==
    /\ call = NoCall
    /\ \E B \in BatchSizes, N \in 1..MaxN, s \in Seeds :
        LET args == [seed_points |->
                         GenTensor("seed_points", <<B, N, 3>>, s, ValMod),
                     seed_feats |->
                         GenTensor("seed_feats", <<B, cfg.in_channels, N>>,
                                   s + 1, ValMod)]
        IN /\ call' = [op |-> "forward", args |-> args]
           /\ tensors' = args
           /\ ret' = Forward(cfg, params, args.seed_points, args.seed_feats)
    /\ UNCHANGED <<cfg, params, optimize>>

\* the ground truth holds num_seed + 1 slots
CallGetLoss ==
    /\ call = NoCall
    /\ \E B \in BatchSizes, N \in 1..MaxN, s \in Seeds :
        LET args ==
              [seed_points |->
                   GenTensor("seed_points", <<B, N, 3>>, s, ValMod),
               vote_points |->
                   GenTensor("vote_points", <<B, N * cfg.vote_per_seed, 3>>,
                             s + 1, ValMod),
               seed_indices |->
                   GenTensor("seed_indices", <<B, N>>, s + 2, N + 1),
               vote_targets_mask |->
                   GenTensor("vote_targets_mask", <<B, N + 1>>, s, 2),
               vote_targets |->
                   GenTensor("vote_targets",
                             <<B, N + 1, 3 * cfg.gt_per_seed>>, s + 1, ValMod)]
            r == GetLoss(cfg, optimize, args)
        IN /\ call' = [op |-> "get_loss", args |-> args]
           /\ tensors' = r.tensors
           /\ ret' = r.ret
    /\ UNCHANGED <<cfg, params, optimize>>

\* points2 is points1 itself (same) or another set of M points
CallNnDistance ==
    /\ call = NoCall
    /\ \E B \in BatchSizes, N \in 1..MaxN, M \in 1..MaxN, s \in Seeds,
          same \in BOOLEAN, mode \in Modes :
        LET points1 == GenTensor("points1", <<B, N, 3>>, s, ValMod)
            args == [points1 |-> points1,
                     points2 |-> IF same THEN points1
                                 ELSE GenTensor("points2", <<B, M, 3>>,
                                                s + 1, ValMod)]
        IN /\ same => M = N
           /\ call' = [op |-> "nn_distance", args |-> args, mode |-> mode]
           /\ tensors' = args
           /\ ret' = NnDistance(optimize, args.points1, args.points2, mode)
    /\ UNCHANGED <<cfg, params, optimize>>

\* the caller drops the call's tensors and result
Release ==
    /\ call # NoCall
    /\ call' = NoCall
    /\ tensors' = NoTensors
    /\ ret' = NoResult
    /\ UNCHANGED <<cfg, params, optimize>>

Next == CallForward \/ CallGetLoss \/ CallNnDistance \/ Release

Spec == Init /\ [][Next]_vars

\* the operations on their own
NextForward == CallForward \/ Release
SpecForward == Init /\ [][NextForward]_vars

NextLoss == CallGetLoss \/ Release
SpecLoss == Init /\ [][NextLoss]_vars

NextNn == CallNnDistance \/ Release
SpecNn == Init /\ [][NextNn]_vars

-----------------------------------------------------------------------------
(* Properties *)

Supported == {"smooth_l1", "l1", "l2"}

\* C1: forward returns M = N * vote_per_seed votes per batch item; the vote
\* at flattened index n*k+v has the coordinate of seed n plus channels
\* v*(3+C) .. v*(3+C)+2 of the transform stack's output for seed n, and (before
\* the optional normalisation) the feature of seed n plus channels
\* v*(3+C)+3 .. (v+1)*(3+C)-1.
C1_VoteLayout ==
    call.op = "forward" =>
        LET sp == call.args.seed_points
            sf == call.args.seed_feats
            B == sp.shape[1]
            N == sp.shape[2]
            C == cfg.in_channels
            k == cfg.vote_per_seed
            out == TransformStack(params, sf, (3 + C) * k)
        IN /\ ret.kind = "ok"
           /\ ret.vote_points.shape = <<B, N * k, 3>>
           /\ ret.vote_feats.shape = <<B, C, N * k>>
           /\ \A b \in 0..(B - 1), n \in 0..(N - 1), v \in 0..(k - 1) :
                /\ \A d \in 0..2 :
                     At(ret.vote_points, <<b, n * k + v, d>>)
                     = At(sp, <<b, n, d>>) + At(out, <<b, v * (3 + C) + d, n>>)
                /\ \A c \in 0..(C - 1) :
                     At(ret.vote_feats, <<b, c, n * k + v>>).num
                     = At(sf, <<b, c, n>>)
                       + At(out, <<b, v * (3 + C) + 3 + c, n>>)

\* a forward call of two seeds with two votes each in a batch of two, whose
\* two votes of one seed differ
C1_Witness ==
    /\ call.op = "forward"
    /\ cfg.vote_per_seed = 2
    /\ cfg.in_channels = 2
    /\ call.args.seed_points.shape = <<2, 2, 3>>
    /\ \E d \in 0..2 : At(ret.vote_points, <<1, 2, d>>)
                       # At(ret.vote_points, <<1, 3, d>>)

\* the squared L2 norm over the channel axis of the numerators of vote m
NumSq(feats, b, m) ==
    SumSeq([c \in 1..feats.shape[2] |->
               At(feats, <<b, c - 1, m>>).num * At(feats, <<b, c - 1, m>>).num])

\* C8: with norm_feats every entry of a vote's feature vector is divided by
\* that vote's own L2 norm over the channel axis, so that a vote whose norm
\* is not zero is returned with L2 norm 1; without norm_feats the features
\* are returned unscaled.
C8_UnitNorm ==
    call.op = "forward" =>
        \A b \in 0..(ret.vote_feats.shape[1] - 1),
           m \in 0..(ret.vote_feats.shape[3] - 1),
           c \in 0..(ret.vote_feats.shape[2] - 1) :
            At(ret.vote_feats, <<b, c, m>>).densq
            = IF cfg.norm_feats THEN NumSq(ret.vote_feats, b, m) ELSE 1

\* a normalised call with two channels where two votes have different,
\* non-zero norms and one of them has two non-zero entries
C8_Witness ==
    /\ call.op = "forward"
    /\ cfg.norm_feats
    /\ cfg.in_channels = 2
    /\ ret.vote_feats.shape[3] >= 2
    /\ NumSq(ret.vote_feats, 0, 0) # 0
    /\ NumSq(ret.vote_feats, 0, 1) # 0
    /\ NumSq(ret.vote_feats, 0, 0) # NumSq(ret.vote_feats, 0, 1)
    /\ \E m \in 0..1 : /\ At(ret.vote_feats, <<0, 0, m>>).num # 0
                       /\ At(ret.vote_feats, <<0, 1, m>>).num # 0

\* C3 (as claimed): nn_distance with a mode other than smooth_l1, l1, l2
\* fails with NotImplementedError.
C3_NotImplemented ==
    (call.op = "nn_distance" /\ call.mode \notin Supported) =>
        (ret.kind = "error" /\ ret.err = "NotImplementedError")

\* C3 (amended): nn_distance with a mode other than smooth_l1, l1, l2 returns
\* no result: it fails with the AssertionError of the assert on line 154,
\* and with NotImplementedError only when assertions are stripped.
C3_UnsupportedModeFails ==
    (call.op = "nn_distance" /\ call.mode \notin Supported) =>
        /\ ret.kind = "error"
        /\ ret.err = IF optimize THEN "NotImplementedError"
                     ELSE "AssertionError"

\* a call with mode cosine under the default interpreter, stopped by the assert
C3_Witness ==
    /\ call.op = "nn_distance"
    /\ call.mode = "cosine"
    /\ ~optimize
    /\ ret.kind = "error"
    /\ ret.err = "AssertionError"

-----------------------------------------------------------------------------
(* The distances the documentation describes *)

\* twice the distance of point i of p1 and point j of p2 in batch item b: the
\* per-coordinate loss of that pair alone, summed over x, y, z
PairLoss2(mode, p1, b, i, p2, j) ==
    SumSeq([d \in 1..3 |->
               ElementLoss2(mode, At(p1, <<b, i, d - 1>>)
                                  - At(p2, <<b, j, d - 1>>))])

MinSet(S) == CHOOSE x \in S : \A y \in S : x <= y

\* coordinate d of ground-truth candidate j of seed (b, n)
GtVote(args, b, n, j, d) ==
    At(args.vote_targets, <<b, At(args.seed_indices, <<b, n>>), 3 * j + d>>)
    + At(args.seed_points, <<b, n, d>>)

\* twice the l1 distance of vote v of seed (b, n) and its candidate j
VoteLoss2(args, k, b, n, v, j) ==
    SumSeq([d \in 1..3 |->
               2 * Abs(At(args.vote_points, <<b, n * k + v, d - 1>>)
                       - GtVote(args, b, n, j, d - 1))])

\* twice the per-seed distance: the least over the seed's own k votes and g
\* candidates
SeedDistance2(args, k, g, b, n) ==
    MinSet({VoteLoss2(args, k, b, n, v, j) :
                v \in 0..(k - 1), j \in 0..(g - 1)})

ValidSeed(args, b, n) ==
    At(args.vote_targets_mask, <<b, At(args.seed_indices, <<b, n>>)>>) # 0

\* C2: nn_distance, in each supported mode, returns for every point of
\* points1 the least pairwise distance to points2 and an index attaining it,
\* and likewise for points2, the distance of a pair depending on that pair
\* alone.
C2_NearestNeighbour ==
    (call.op = "nn_distance" /\ call.mode \in Supported) =>
        LET p1 == call.args.points1
            p2 == call.args.points2
            B == p1.shape[1]
            N == p1.shape[2]
            M == p2.shape[2]
        IN /\ ret.kind = "ok"
           /\ ret.distance1.shape = <<B, N>>
           /\ ret.index1.shape = <<B, N>>
           /\ ret.distance2.shape = <<B, M>>
           /\ ret.index2.shape = <<B, M>>
           /\ \A b \in 0..(B - 1), i \in 0..(N - 1) :
                LET j0 == At(ret.index1, <<b, i>>)
                IN /\ j0 \in 0..(M - 1)
                   /\ 2 * At(ret.distance1, <<b, i>>)
                      = PairLoss2(call.mode, p1, b, i, p2, j0)
                   /\ \A j \in 0..(M - 1) :
                        PairLoss2(call.mode, p1, b, i, p2, j0)
                        <= PairLoss2(call.mode, p1, b, i, p2, j)
           /\ \A b \in 0..(B - 1), j \in 0..(M - 1) :
                LET i0 == At(ret.index2, <<b, j>>)
                IN /\ i0 \in 0..(N - 1)
                   /\ 2 * At(ret.distance2, <<b, j>>)
                      = PairLoss2(call.mode, p1, b, i0, p2, j)
                   /\ \A i \in 0..(N - 1) :
                        PairLoss2(call.mode, p1, b, i0, p2, j)
                        <= PairLoss2(call.mode, p1, b, i, p2, j)

\* C6: nn_distance(P, P, mode) returns distance 0 and index i for every
\* point i of P.
C6_SelfNearest ==
    (/\ call.op = "nn_distance"
     /\ call.mode \in Supported
     /\ call.args.points2.shape = call.args.points1.shape
     /\ call.args.points2.data = call.args.points1.data) =>
        /\ ret.kind = "ok"
        /\ \A b \in 0..(call.args.points1.shape[1] - 1),
              i \in 0..(call.args.points1.shape[2] - 1) :
                /\ At(ret.distance1, <<b, i>>) = 0
                /\ At(ret.index1, <<b, i>>) = i

\* C4: for every gt_per_seed g, get_loss forms the absolute ground-truth
\* votes of seed (b, n): candidate j < g is the gathered displacement
\* vote_targets[b, seed_indices[b, n], 3j .. 3j+2] plus seed_points[b, n].
C4_GroundTruthVotes ==
    call.op = "get_loss" =>
        /\ ret.added
        /\ \A b \in 0..(call.args.seed_points.shape[1] - 1),
              n \in 0..(call.args.seed_points.shape[2] - 1),
              j \in 0..(cfg.gt_per_seed - 1), d \in 0..2 :
                At(ret.seed_gt_votes, <<b, n, 3 * j + d>>)
                = GtVote(call.args, b, n, j, d)

\* C9: the per-seed distance of seed (b, n) is the least l1 distance between
\* that seed's own vote_per_seed votes and its own gt_per_seed candidates.
C9_PerSeedDistance ==
    call.op = "get_loss" =>
        /\ ret.kind = "ok"
        /\ \A b \in 0..(call.args.seed_points.shape[1] - 1),
              n \in 0..(call.args.seed_points.shape[2] - 1) :
                2 * At(ret.votes_dist, <<b, n>>)
                = SeedDistance2(call.args, cfg.vote_per_seed,
                                cfg.gt_per_seed, b, n)

\* C5: get_loss returns loss_weight * S / (P + 1e-6), P the number of seeds
\* with a valid gathered mask and S the sum of those seeds' distances.
C5_LossValue ==
    call.op = "get_loss" =>
        LET B == call.args.seed_points.shape[1]
            N == call.args.seed_points.shape[2]
            dist2 == [i \in 1..(B * N) |->
                         IF ValidSeed(call.args, (i - 1) \div N, (i - 1) % N)
                         THEN SeedDistance2(call.args, cfg.vote_per_seed,
                                            cfg.gt_per_seed,
                                            (i - 1) \div N, (i - 1) % N)
                         ELSE 0]
            valid == {i \in 1..(B * N) :
                         ValidSeed(call.args, (i - 1) \div N, (i - 1) % N)}
        IN /\ ret.kind = "ok"
           /\ ret.loss.pos = Cardinality(valid)
           /\ 2 * ret.loss.num = cfg.loss_weight * SumSeq(dist2)

\* C7: on the same inputs a module with twice the loss_weight returns twice
\* the loss.
C7_LinearInWeight ==
    call.op = "get_loss" =>
        LET twice == GetLoss([in_channels |-> cfg.in_channels,
                              vote_per_seed |-> cfg.vote_per_seed,
                              gt_per_seed |-> cfg.gt_per_seed,
                              norm_feats |-> cfg.norm_feats,
                              loss_weight |-> 2 * cfg.loss_weight],
                             optimize, call.args).ret
        IN /\ ret.kind = "ok"
           /\ twice.kind = "ok"
           /\ twice.loss.pos = ret.loss.pos
           /\ twice.loss.num = 2 * ret.loss.num

=============================================================================
